---- MODULE Spec2Model ----
(***************************************************************************)
(* Pointcheval-Sanders signatures (CT-RSA 2016 and CT-RSA 2018 variants),  *)
(* the BLS-style multi-signature built on them and the proof of knowledge  *)
(* of a signature of the 2018 variant.                                     *)
(*                                                                         *)
(* The pairing groups are modelled exactly, as cyclic groups of prime      *)
(* order Q: an element of the signature group or of the verkey group is    *)
(* represented by its discrete logarithm in 0..Q-1 (0 is the identity),    *)
(* the group law is addition mod Q, the scalar multiplication is           *)
(* multiplication mod Q, and the pairing e(a, b) is the product a*b mod Q  *)
(* in the target group (written additively, so the unit "one" is 0).       *)
(* Every relation the code computes is a relation in these groups.         *)
(***************************************************************************)
EXTENDS Integers, Sequences, FiniteSets, TLC

VARIABLES params, signers, messages, oracle, sigs, call

vars == <<params, signers, messages, oracle, sigs, call>>

----------------------------------------------------------------------------
(* Bounds of the model *)

\* longest message vector handed to a signer
MaxLen == 2

\* largest number of signers taking part in a multi-signature
MaxSigners == 2

----------------------------------------------------------------------------
(* Pairing algebra facade *)

\* order of the scalar field and of the three groups: a prime, scaled down
\* from the curve order so that every scalar and group element is enumerated
Q == 3

\* usize counts modulo 2^w; the width is scaled down with the vectors
UsizeModulus == 16

\* a + b on usize where overflow is not checked (release build): it wraps
usize_add(a, b) == (a + b) % UsizeModulus

FieldElement == 0 .. (Q - 1)

SignatureGroup == 0 .. (Q - 1)

VerkeyGroup == 0 .. (Q - 1)

\* FieldElement::random() returns a non-zero scalar and SignatureGroup::random()
\* a non-identity element (the contract of the pairing library); keygen and
\* the signers draw from these
RandomFieldElement == 1 .. (Q - 1)

RandomSignatureGroup == 1 .. (Q - 1)

\* hash-to-curve lands on a point of prime order
HashedSignatureGroup == 1 .. (Q - 1)

field_add(a, b) == (a + b) % Q

field_mul(a, b) == (a * b) % Q

group_add(a, b) == (a + b) % Q

scalar_mul(p, s) == (p * s) % Q

\* the negation left out
negation_dropped(p) == p

negation(p) == (Q - p) % Q

group_is_identity(p) == p = 0

\* e(g1, g2) * e(h1, h2) in the target group
ate_2_pairing(g1, g2, h1, h2) == ((g1 * g2) + (h1 * h2)) % Q

is_one(e) == e = 0

RECURSIVE msm(_, _, _)
\* sum of bases[i]^exps[i] over the first n entries; the empty sum is the identity
msm(bases, exps, n) ==
    IF n = 0 THEN 0
    ELSE group_add(msm(bases, exps, n - 1), scalar_mul(bases[n], exps[n]))

\* bases.multi_scalar_mul_var_time(&exps) for vectors of equal length
multi_scalar_mul_var_time(bases, exps) == msm(bases, exps, Len(bases))

\* canonical fixed-width encoding of a scalar (one symbol wide here)
to_bytes(f) == <<f>>

\* vectors of length n over S
Vec(S, n) == [1 .. n -> S]

VecUpTo(S, lo, hi) == UNION {Vec(S, n) : n \in lo .. hi}

\* FieldElement::from_msg_hash can land on any scalar
HashedFieldElement == 0 .. (Q - 1)

RECURSIVE msg_bytes(_, _)
\* the loop msg_bytes.append(&mut i.to_bytes()) over the first n messages
msg_bytes(msgs, n) ==
    IF n = 0 THEN <<>> ELSE msg_bytes(msgs, n - 1) \o to_bytes(msgs[n])

\* The two hash functions (to the scalar field, to the signature group) are
\* arbitrary fixed functions of the bytes: a table that is filled in, once and
\* for all, the first time some bytes are hashed.
hash_query_fe(o, bytes, f) ==
    IF bytes \in DOMAIN o.fe THEN o ELSE [o EXCEPT !.fe = (bytes :> f) @@ @]

hash_query_grp(o, bytes, h) ==
    IF bytes \in DOMAIN o.grp THEN o ELSE [o EXCEPT !.grp = (bytes :> h) @@ @]

FieldElement_from_msg_hash(o, bytes) == o.fe[bytes]

SignatureGroup_from_msg_hash(o, bytes) == o.grp[bytes]

----------------------------------------------------------------------------
(* Results and errors *)

Ok(v) == [tag |-> "Ok", val |-> v]

UnsupportedNoOfMessages(e, g) ==
    [tag |-> "Err", err |-> "UnsupportedNoOfMessages", expected |-> e, given |-> g]

IncompatibleVerkeysForAggregation ==
    [tag |-> "Err", err |-> "IncompatibleVerkeysForAggregation"]

IncompatibleSigsForAggregation ==
    [tag |-> "Err", err |-> "IncompatibleSigsForAggregation"]

GeneralError(m) == [tag |-> "Err", err |-> "GeneralError", msg |-> m]

\* the thread unwinds: an index out of bounds, an arithmetic overflow caught
Panic(m) == [tag |-> "Panic", msg |-> m]

IsOk(r) == r.tag = "Ok"

IsErr(r, kind) == r.tag = "Err" /\ r.err = kind

----------------------------------------------------------------------------
(* Keys and parameters *)

\* the labels the applications of the model pass to Params::new
Labels == {1, 2}

\* Params::new(label): two non-identity generators, a function of the label
Params_new(label) ==
    [g |-> 1 + (label % (Q - 1)), g_tilde |-> 1 + ((label \div 2) % (Q - 1))]

\* keygen(L, params) with the sampled scalars x, y[1..L] made explicit
keygen(x, y, p) ==
    [sk |-> [x |-> x, y |-> y],
     vk |-> [X_tilde |-> scalar_mul(p.g_tilde, x),
             Y_tilde |-> [i \in 1 .. Len(y) |-> scalar_mul(p.g_tilde, y[i])]]]

\* keygen_2018(n, params) is keygen(n + 1, params): y has n + 1 entries
keygen_2018(x, y, p) == keygen(x, y, p)

----------------------------------------------------------------------------
(* Signature, 2016 scheme *)

Sig16_check_verkey_and_messages_compat(msgs, vk) ==
    IF Len(msgs) # Len(vk.Y_tilde)
    THEN UnsupportedNoOfMessages(Len(msgs), Len(vk.Y_tilde))
    ELSE Ok(TRUE)

Sig16_check_sigkey_and_messages_compat(msgs, sigkey) ==
    IF Len(sigkey.y) # Len(msgs)
    THEN UnsupportedNoOfMessages(Len(msgs), Len(sigkey.y))
    ELSE Ok(TRUE)

RECURSIVE sign_exp_without_x(_, _, _, _)
\* the accumulation started from zero instead of sigkey.x
sign_exp_without_x(msgs, sigkey, offset, n) ==
    IF n = 0 THEN 0
    ELSE field_add(sign_exp_without_x(msgs, sigkey, offset, n - 1),
                   field_mul(sigkey.y[offset + n], msgs[n]))

RECURSIVE sign_exp(_, _, _, _)
\* the accumulation loop: exp += y[offset + i] * messages[i], i < n
sign_exp(msgs, sigkey, offset, n) ==
    IF n = 0 THEN sigkey.x
    ELSE field_add(sign_exp(msgs, sigkey, offset, n - 1),
                   field_mul(sigkey.y[offset + n], msgs[n]))

\* offset + messages.len() wraps where overflow is not checked; the loop
\* then indexes y[offset + i], which panics when out of bounds
Sig16_sign_with_given_sigma_1(msgs, sigkey, offset, h) ==
    IF Len(sigkey.y) # usize_add(offset, Len(msgs))
    THEN UnsupportedNoOfMessages(usize_add(offset, Len(msgs)), Len(sigkey.y))
    ELSE IF \E i \in 0 .. (Len(msgs) - 1) : usize_add(offset, i) >= Len(sigkey.y)
    THEN Panic("index out of bounds")
    ELSE Ok(scalar_mul(h, sign_exp(msgs, sigkey, offset, Len(msgs))))

\* the same where overflow is checked (debug build): offset + messages.len()
\* panics when it overflows
Sig16_sign_with_given_sigma_1_overflow_checked(msgs, sigkey, offset, h) ==
    IF offset + Len(msgs) >= UsizeModulus
    THEN Panic("attempt to add with overflow")
    ELSE Sig16_sign_with_given_sigma_1(msgs, sigkey, offset, h)

Sig16_sign_with_sigma_1_generated_from_given_exp(msgs, sigkey, u, offset, g) ==
    LET h == scalar_mul(g, u)
        h_exp == Sig16_sign_with_given_sigma_1(msgs, sigkey, offset, h)
    IN  IF IsOk(h_exp) THEN Ok(<<h, h_exp.val>>) ELSE h_exp

\* Signature::new, u being the value FieldElement::random() returned
Sig16_new(msgs, sigkey, p, u) ==
    LET c == Sig16_check_sigkey_and_messages_compat(msgs, sigkey)
        s == Sig16_sign_with_sigma_1_generated_from_given_exp(msgs, sigkey, u, 0, p.g)
    IN  IF ~IsOk(c) THEN c
        ELSE IF ~IsOk(s) THEN s
        ELSE Ok([sigma_1 |-> s.val[1], sigma_2 |-> s.val[2]])

Sig16_is_identity(sig) ==
    group_is_identity(sig.sigma_1) \/ group_is_identity(sig.sigma_2)

\* the pairing check with every base taken at index 0 instead of index i
Sig16_pairing_check_first_base(sig, msgs, vk, p) ==
    LET Y_m_bases == [i \in 1 .. Len(msgs) |-> vk.Y_tilde[1]]
        Y_m == group_add(vk.X_tilde, multi_scalar_mul_var_time(Y_m_bases, msgs))
        e == ate_2_pairing(sig.sigma_1, Y_m, negation(sig.sigma_2), p.g_tilde)
    IN  is_one(e)

\* the pairing check with the generator g paired in place of sigma_1
Sig16_pairing_check_with_g(sig, msgs, vk, p) ==
    LET Y_m_bases == [i \in 1 .. Len(msgs) |-> vk.Y_tilde[i]]
        Y_m == group_add(vk.X_tilde, multi_scalar_mul_var_time(Y_m_bases, msgs))
        e == ate_2_pairing(p.g, Y_m, negation(sig.sigma_2), p.g_tilde)
    IN  is_one(e)

Sig16_pairing_check(sig, msgs, vk, p) ==
    LET Y_m_bases == [i \in 1 .. Len(msgs) |-> vk.Y_tilde[i]]
        Y_m_exps == msgs
        Y_m == group_add(vk.X_tilde, multi_scalar_mul_var_time(Y_m_bases, Y_m_exps))
        e == ate_2_pairing(sig.sigma_1, Y_m, negation(sig.sigma_2), p.g_tilde)
    IN  is_one(e)

\* verify with the identity test made before the length test
Sig16_verify_identity_first(sig, msgs, vk, p) ==
    IF Sig16_is_identity(sig) THEN Ok(FALSE)
    ELSE IF Len(vk.Y_tilde) # Len(msgs)
    THEN UnsupportedNoOfMessages(Len(vk.Y_tilde), Len(msgs))
    ELSE Ok(Sig16_pairing_check(sig, msgs, vk, p))

Sig16_verify(sig, msgs, vk, p) ==
    IF Len(vk.Y_tilde) # Len(msgs)
    THEN UnsupportedNoOfMessages(Len(vk.Y_tilde), Len(msgs))
    ELSE IF Sig16_is_identity(sig) THEN Ok(FALSE)
    ELSE Ok(Sig16_pairing_check(sig, msgs, vk, p))

Sig16_generate_sigma_1_from_messages(o, msgs) ==
    SignatureGroup_from_msg_hash(o, msg_bytes(msgs, Len(msgs)))

\* Signature::new_deterministic, o being the hash functions
Sig16_new_deterministic(o, msgs, sigkey) ==
    LET c == Sig16_check_sigkey_and_messages_compat(msgs, sigkey)
        sigma_1 == Sig16_generate_sigma_1_from_messages(o, msgs)
        sigma_2 == Sig16_sign_with_given_sigma_1(msgs, sigkey, 0, sigma_1)
    IN  IF ~IsOk(c) THEN c
        ELSE IF ~IsOk(sigma_2) THEN sigma_2
        ELSE Ok([sigma_1 |-> sigma_1, sigma_2 |-> sigma_2.val])

----------------------------------------------------------------------------
(* Signature, 2018 scheme *)

\* the m' term multiplied by the last message's y instead of the extra y
Sig18_sign_with_given_sigma_1_wrong_y(msgs, m_prime, sigkey, offset, h) ==
    IF Len(sigkey.y) # offset + Len(msgs) + 1
    THEN UnsupportedNoOfMessages(offset + Len(msgs) + 1, Len(sigkey.y))
    ELSE LET exp == field_add(sign_exp(msgs, sigkey, offset, Len(msgs)),
                              field_mul(sigkey.y[offset + Len(msgs)], m_prime))
         IN  Ok(scalar_mul(h, exp))

Sig18_sign_with_given_sigma_1(msgs, m_prime, sigkey, offset, h) ==
    IF Len(sigkey.y) # offset + Len(msgs) + 1
    THEN UnsupportedNoOfMessages(offset + Len(msgs) + 1, Len(sigkey.y))
    ELSE LET exp == field_add(sign_exp(msgs, sigkey, offset, Len(msgs)),
                              field_mul(sigkey.y[offset + Len(msgs) + 1], m_prime))
         IN  Ok(scalar_mul(h, exp))

\* the tail shared by the three constructors
Sig18_build(msgs, m_prime, sigkey, sigma_1) ==
    LET sigma_2 == Sig18_sign_with_given_sigma_1(msgs, m_prime, sigkey, 0, sigma_1)
    IN  IF ~IsOk(sigma_2) THEN sigma_2
        ELSE Ok([m_prime |-> m_prime,
                 sig |-> [sigma_1 |-> sigma_1, sigma_2 |-> sigma_2.val]])

\* Signature::new (2018), m_prime and sigma_1 being the random draws
Sig18_new(msgs, sigkey, m_prime, sigma_1) == Sig18_build(msgs, m_prime, sigkey, sigma_1)

Sig18_generate_m_prime_from_messages(o, msgs) ==
    FieldElement_from_msg_hash(o, msg_bytes(msgs, Len(msgs)))

Sig18_new_with_deterministic_m(o, msgs, sigkey, sigma_1) ==
    Sig18_build(msgs, Sig18_generate_m_prime_from_messages(o, msgs), sigkey, sigma_1)

Sig18_generate_m_prime_and_sigma_1_from_messages(o, msgs) ==
    <<FieldElement_from_msg_hash(o, msg_bytes(msgs, Len(msgs))),
      SignatureGroup_from_msg_hash(o, msg_bytes(msgs, Len(msgs)))>>

Sig18_new_deterministic(o, msgs, sigkey) ==
    LET h == Sig18_generate_m_prime_and_sigma_1_from_messages(o, msgs)
    IN  Sig18_build(msgs, h[1], sigkey, h[2])

\* verify reporting the number of messages without the one for m'
Sig18_verify_given_without_m_prime(sig, msgs, vk, p) ==
    IF Len(vk.Y_tilde) # Len(msgs) + 1
    THEN UnsupportedNoOfMessages(Len(vk.Y_tilde), Len(msgs))
    ELSE IF Sig16_is_identity(sig.sig) THEN Ok(FALSE)
    ELSE Ok(Sig16_pairing_check(sig.sig, Append(msgs, sig.m_prime), vk, p))

Sig18_verify(sig, msgs, vk, p) ==
    IF Len(vk.Y_tilde) # Len(msgs) + 1
    THEN UnsupportedNoOfMessages(Len(vk.Y_tilde), Len(msgs) + 1)
    ELSE IF Sig16_is_identity(sig.sig) THEN Ok(FALSE)
    ELSE Ok(Sig16_pairing_check(sig.sig, Append(msgs, sig.m_prime), vk, p))

----------------------------------------------------------------------------
(* Multi-signature *)

RECURSIVE sum_X_tilde(_, _)
\* X_tilde += &vk.X_tilde over the first n verkeys
sum_X_tilde(ver_keys, n) ==
    IF n = 0 THEN 0
    ELSE group_add(sum_X_tilde(ver_keys, n - 1), ver_keys[n].X_tilde)

RECURSIVE sum_Y_tilde(_, _, _)
\* Y_tilde[i] += &vk.Y_tilde[i] over the first n verkeys
sum_Y_tilde(ver_keys, i, n) ==
    IF n = 0 THEN 0
    ELSE group_add(sum_Y_tilde(ver_keys, i, n - 1), ver_keys[n].Y_tilde[i])

\* the fold started from the identity with no test for an empty list
AggregatedVerkeyFast_from_verkeys_unguarded(ver_keys) ==
    IF ver_keys = <<>> THEN Ok([X_tilde |-> 0, Y_tilde |-> <<>>])
    ELSE LET y_len == Len(ver_keys[1].Y_tilde)
         IN  IF ~(\A k \in 1 .. Len(ver_keys) : Len(ver_keys[k].Y_tilde) = y_len)
             THEN IncompatibleVerkeysForAggregation
             ELSE Ok([X_tilde |-> sum_X_tilde(ver_keys, Len(ver_keys)),
                      Y_tilde |-> [i \in 1 .. y_len |->
                                     sum_Y_tilde(ver_keys, i, Len(ver_keys))]])

AggregatedVerkeyFast_from_verkeys(ver_keys) ==
    IF ver_keys = <<>> THEN GeneralError("Provide at least one key")
    ELSE LET y_len == Len(ver_keys[1].Y_tilde)
         IN  IF ~(\A k \in 1 .. Len(ver_keys) : Len(ver_keys[k].Y_tilde) = y_len)
             THEN IncompatibleVerkeysForAggregation
             ELSE Ok([X_tilde |-> sum_X_tilde(ver_keys, Len(ver_keys)),
                      Y_tilde |-> [i \in 1 .. y_len |->
                                     sum_Y_tilde(ver_keys, i, Len(ver_keys))]])

RECURSIVE sum_sigma_2_from_second(_, _)
\* the sum that leaves out the first signature
sum_sigma_2_from_second(ss, n) ==
    IF n <= 1 THEN 0 ELSE group_add(sum_sigma_2_from_second(ss, n - 1), ss[n].sigma_2)

RECURSIVE sum_sigma_2(_, _)
\* sigma_2 += &s.sigma_2 over the first n signatures
sum_sigma_2(ss, n) ==
    IF n = 0 THEN 0 ELSE group_add(sum_sigma_2(ss, n - 1), ss[n].sigma_2)

\* combine with the comparison of the sigma_1 left out
MultiSignatureFast_combine_unchecked(ss) ==
    Ok([sigma_1 |-> ss[1].sigma_1, sigma_2 |-> sum_sigma_2(ss, Len(ss))])

MultiSignatureFast_combine(ss) ==
    LET sigma_1 == ss[1].sigma_1
    IN  IF ~(\A k \in 1 .. Len(ss) : ss[k].sigma_1 = sigma_1)
        THEN IncompatibleSigsForAggregation
        ELSE Ok([sigma_1 |-> sigma_1, sigma_2 |-> sum_sigma_2(ss, Len(ss))])

MultiSignatureFast_from_sigs(ss) ==
    IF ss = <<>> THEN GeneralError("Provide at least one signature")
    ELSE MultiSignatureFast_combine(ss)

MultiSignatureFast_from_sigs_2018(ss) ==
    IF ss = <<>> THEN GeneralError("Provide at least one signature")
    ELSE LET m_prime == ss[1].m_prime
             sig == MultiSignatureFast_combine([k \in 1 .. Len(ss) |-> ss[k].sig])
         IN  IF ~(\A k \in 1 .. Len(ss) : ss[k].m_prime = m_prime)
             THEN IncompatibleSigsForAggregation
             ELSE IF ~IsOk(sig) THEN sig
             ELSE Ok([m_prime |-> m_prime, sig |-> sig.val])

MultiSignatureFast_verify(sig, msgs, ver_keys, p) ==
    LET avk == AggregatedVerkeyFast_from_verkeys(ver_keys)
    IN  IF ~IsOk(avk) THEN avk ELSE Sig16_verify(sig, msgs, avk.val, p)

MultiSignatureFast_verify_2018(sig, msgs, ver_keys, p) ==
    LET avk == AggregatedVerkeyFast_from_verkeys(ver_keys)
    IN  IF ~IsOk(avk) THEN avk ELSE Sig18_verify(sig, msgs, avk.val, p)

----------------------------------------------------------------------------
(* Proof of knowledge of a signature *)

\* Option<T>
None == [some |-> FALSE]

Some(v) == [some |-> TRUE, val |-> v]

UnequalNoOfBasesExponents(b, e) ==
    [tag |-> "Err", err |-> "UnequalNoOfBasesExponents", bases |-> b, exponents |-> e]

\* canonical encoding of a group element (one symbol wide here)
group_to_bytes(p) == <<p>>

RECURSIVE hidden_indices(_, _)
\* the loop "for i in 0..n { if revealed.contains(&i) { continue } ... }":
\* the positions (counted from 1) of the first n entries that stay hidden
hidden_indices(revealed, n) ==
    IF n = 0 THEN <<>>
    ELSE hidden_indices(revealed, n - 1)
           \o (IF (n - 1) \in revealed THEN <<>> ELSE <<n>>)

\* the entries of v at the positions idx, in order
select(v, idx) == [k \in 1 .. Len(idx) |-> v[idx[k]]]

\* every revealed index (counted from 0) is an index of the message vector
PoK16_validate_revealed_indices(msgs, revealed) ==
    IF \E i \in revealed : i >= Len(msgs)
    THEN GeneralError("revealed index out of range")
    ELSE Ok(TRUE)

\* one optional blinding for each hidden message: the caller's, or none
PoK16_get_blindings(blindings, msgs, revealed) ==
    LET hidden == Len(msgs) - Cardinality(revealed)
    IN  IF blindings.some
        THEN IF Len(blindings.val) # hidden
             THEN GeneralError("number of blindings differs from number of hidden messages")
             ELSE Ok([k \in 1 .. hidden |-> Some(blindings.val[k])])
        ELSE Ok([k \in 1 .. hidden |-> None])

\* sigma'_1 = sigma_1^r, sigma'_2 = (sigma_2 + sigma_1^t)^r, r and t being the
\* scalars sampled
PoK16_transform_sig(sig, r, t) ==
    <<t, [sigma_1 |-> scalar_mul(sig.sigma_1, r),
          sigma_2 |-> scalar_mul(group_add(sig.sigma_2, scalar_mul(sig.sigma_1, t)), r)]>>

\* PoK_VC commit: the blinding of base k is the caller's where one is given
\* and the next fresh sample otherwise; T = sum of bases[k]^blinding[k]
PoKVC_commit(bases, blindings, fresh) ==
    LET rs == [k \in 1 .. Len(bases) |->
                 IF blindings[k].some THEN blindings[k].val
                 ELSE fresh[Cardinality({j \in 1 .. k : ~blindings[j].some})]]
    IN  [bases |-> bases, blindings |-> rs,
         commitment |-> multi_scalar_mul_var_time(bases, rs)]

\* hidden exponents t, M[i] (i not revealed); bases g_tilde, Y_tilde[i] (i not
\* revealed); J = X_tilde + sum of Y_tilde[i]^M[i] + g_tilde^t; the blinding of
\* t is always fresh
PoK16_commit_for_pok(msgs, blindings, revealed, t, vk, p, fresh) ==
    LET hid == hidden_indices(revealed, Len(vk.Y_tilde))
        bases == <<p.g_tilde>> \o select(vk.Y_tilde, hid)
        exponents == <<t>> \o select(msgs, hid)
        J == group_add(group_add(vk.X_tilde,
                                 multi_scalar_mul_var_time(vk.Y_tilde, msgs)),
                       scalar_mul(p.g_tilde, t))
    IN  <<exponents, J, PoKVC_commit(bases, <<None>> \o blindings, fresh)>>

\* sigma'_1, sigma'_2, J, T and the bases in order; the prover state holds no
\* revealed-index set: the set shows in the bases that are left
PoK16_to_bytes(pok) ==
    group_to_bytes(pok.sig.sigma_1) \o group_to_bytes(pok.sig.sigma_2)
      \o group_to_bytes(pok.J) \o group_to_bytes(pok.pok_vc.commitment)
      \o pok.pok_vc.bases

\* PoK_VC response step: s[k] = blinding[k] + c * secret[k]
PoKVC_gen_proof(committed, challenge, secrets) ==
    IF Len(secrets) # Len(committed.bases)
    THEN UnequalNoOfBasesExponents(Len(committed.bases), Len(secrets))
    ELSE Ok([commitment |-> committed.commitment,
             responses |-> [k \in 1 .. Len(secrets) |->
                              field_add(committed.blindings[k],
                                        field_mul(challenge, secrets[k]))]])

PoK16_gen_proof(pok, challenge) ==
    LET proof_vc == PoKVC_gen_proof(pok.pok_vc, challenge, pok.secrets)
    IN  IF ~IsOk(proof_vc) THEN proof_vc
        ELSE Ok([sig |-> pok.sig, J |-> pok.J, proof_vc |-> proof_vc.val])

\* the bases the verifier rebuilds: g_tilde, then Y_tilde[i] for i not revealed
PoKProof_bases(revealed, vk, p) ==
    <<p.g_tilde>> \o select(vk.Y_tilde, hidden_indices(revealed, Len(vk.Y_tilde)))

\* the transcript laid out with J and T exchanged
PoKProof_get_bytes_for_challenge_swapped(proof, revealed, vk, p) ==
    group_to_bytes(proof.sig.sigma_1) \o group_to_bytes(proof.sig.sigma_2)
      \o group_to_bytes(proof.proof_vc.commitment) \o group_to_bytes(proof.J)
      \o PoKProof_bases(revealed, vk, p)

PoKProof_get_bytes_for_challenge(proof, revealed, vk, p) ==
    group_to_bytes(proof.sig.sigma_1) \o group_to_bytes(proof.sig.sigma_2)
      \o group_to_bytes(proof.J) \o group_to_bytes(proof.proof_vc.commitment)
      \o PoKProof_bases(revealed, vk, p)

\* PoK_VC verification: sum of bases[k]^s[k] = T + C^c
PoKVC_verify(proof_vc, bases, C, challenge) ==
    IF Len(proof_vc.responses) # Len(bases)
    THEN UnequalNoOfBasesExponents(Len(bases), Len(proof_vc.responses))
    ELSE Ok(multi_scalar_mul_var_time(bases, proof_vc.responses)
              = group_add(proof_vc.commitment, scalar_mul(C, challenge)))

RECURSIVE revealed_sum(_, _, _)
\* sum of Y_tilde[i]^revealed_msgs[i] over the revealed i among the first n
revealed_sum(vk, revealed_msgs, n) ==
    IF n = 0 THEN 0
    ELSE group_add(revealed_sum(vk, revealed_msgs, n - 1),
                   IF (n - 1) \in DOMAIN revealed_msgs
                   THEN scalar_mul(vk.Y_tilde[n], revealed_msgs[n - 1])
                   ELSE 0)

\* verification that leaves the revealed messages out of C
PoKProof_verify_ignoring_revealed(proof, vk, p, revealed_msgs, challenge) ==
    IF group_is_identity(proof.sig.sigma_1) THEN Ok(FALSE)
    ELSE LET C == group_add(proof.J, negation(vk.X_tilde))
             vc == PoKVC_verify(proof.proof_vc,
                                PoKProof_bases(DOMAIN revealed_msgs, vk, p),
                                C, challenge)
             e == ate_2_pairing(proof.sig.sigma_1, proof.J,
                                negation(proof.sig.sigma_2), p.g_tilde)
         IN  IF ~IsOk(vc) THEN vc ELSE Ok(vc.val /\ is_one(e))

\* PoKOfSignatureProof::verify: reject an identity sigma'_1; C = J - X_tilde -
\* sum of the revealed Y_tilde[i]^m[i]; PoK_VC verification on C; the pairing
\* relation e(sigma'_1, J) = e(sigma'_2, g_tilde); accept iff both hold
PoKProof_verify(proof, vk, p, revealed_msgs, challenge) ==
    IF group_is_identity(proof.sig.sigma_1) THEN Ok(FALSE)
    ELSE IF \E i \in DOMAIN revealed_msgs : i >= Len(vk.Y_tilde)
    THEN GeneralError("revealed index out of range")
    ELSE LET C == group_add(proof.J,
                            negation(group_add(vk.X_tilde,
                                               revealed_sum(vk, revealed_msgs,
                                                            Len(vk.Y_tilde)))))
             vc == PoKVC_verify(proof.proof_vc,
                                PoKProof_bases(DOMAIN revealed_msgs, vk, p),
                                C, challenge)
             e == ate_2_pairing(proof.sig.sigma_1, proof.J,
                                negation(proof.sig.sigma_2), p.g_tilde)
         IN  IF ~IsOk(vc) THEN vc ELSE Ok(vc.val /\ is_one(e))

Sig18_check_sigkey_and_messages_compat(msgs, sigkey) ==
    IF Len(sigkey.y) # Len(msgs) + 1
    THEN UnsupportedNoOfMessages(Len(msgs) + 1, Len(sigkey.y))
    ELSE Ok(TRUE)

Sig18_check_verkey_and_messages_compat(msgs, vk) ==
    IF Len(msgs) + 1 # Len(vk.Y_tilde)
    THEN UnsupportedNoOfMessages(Len(msgs) + 1, Len(vk.Y_tilde))
    ELSE Ok(TRUE)

\* init with the check of the revealed indices left out
PoK18_init_unvalidated(sig, vk, p, msgs, blindings, revealed, r, t, fresh) ==
    LET c == Sig18_check_verkey_and_messages_compat(msgs, vk)
        b == PoK16_get_blindings(blindings, msgs, revealed)
    IN  IF ~IsOk(c) THEN c
        ELSE IF ~IsOk(b) THEN b
        ELSE LET ts == PoK16_transform_sig(sig.sig, r, t)
                 cm == PoK16_commit_for_pok(Append(msgs, sig.m_prime),
                                            Append(b.val, None),
                                            revealed, ts[1], vk, p, fresh)
             IN  Ok([secrets |-> cm[1], sig |-> ts[2], J |-> cm[2], pok_vc |-> cm[3]])

\* PoKOfSignature::init (2018); r, t and fresh are the scalars sampled
PoK18_init(sig, vk, p, msgs, blindings, revealed, r, t, fresh) ==
    LET c == Sig18_check_verkey_and_messages_compat(msgs, vk)
        v == PoK16_validate_revealed_indices(msgs, revealed)
        b == PoK16_get_blindings(blindings, msgs, revealed)
    IN  IF ~IsOk(c) THEN c
        ELSE IF ~IsOk(v) THEN v
        ELSE IF ~IsOk(b) THEN b
        ELSE LET ts == PoK16_transform_sig(sig.sig, r, t)
                 cm == PoK16_commit_for_pok(Append(msgs, sig.m_prime),
                                            Append(b.val, None),
                                            revealed, ts[1], vk, p, fresh)
             IN  Ok([secrets |-> cm[1], sig |-> ts[2], J |-> cm[2], pok_vc |-> cm[3]])

\* the bytes of the randomized signature alone
PoK18_to_bytes_of_sig(pok) ==
    group_to_bytes(pok.sig.sigma_1) \o group_to_bytes(pok.sig.sigma_2)

PoK18_to_bytes(pok) == PoK16_to_bytes(pok)

PoK18_gen_proof(pok, challenge) == PoK16_gen_proof(pok, challenge)

----------------------------------------------------------------------------
(* One signer of the 2016 scheme: key generation, signing, verification *)

NoCall == [op |-> "none"]

NoOracle == [fe |-> <<>>, grp |-> <<>>]

Init16 ==
    /\ \E label \in Labels : params = Params_new(label)
    /\ \E L \in 1 .. MaxLen :
         \E x \in RandomFieldElement, y \in Vec(RandomFieldElement, L) :
           signers = <<keygen(x, y, params)>>
    /\ \E L \in 1 .. MaxLen : messages \in Vec(FieldElement, L)
    /\ Len(messages) = Len(signers[1].sk.y)
    /\ oracle = NoOracle
    /\ sigs = <<>>
    /\ call = NoCall

\* what a constructor of signer j leaves behind: the call and, on success, the signature
Signed(j, scheme, how, r, o) ==
    /\ call' = [op |-> how, scheme |-> scheme, signer |-> j, ret |-> r]
    /\ sigs' = IF IsOk(r)
               THEN (j :> [scheme |-> scheme, how |-> how, sig |-> r.val,
                           params |-> params]) @@ sigs
               ELSE sigs
    /\ oracle' = o
    /\ UNCHANGED <<params, signers, messages>>

\* the signer calls Signature::new on the message vector
New16(j) ==
    /\ j \in 1 .. Len(signers)
    /\ \E u \in RandomFieldElement :
         Signed(j, 16, "new", Sig16_new(messages, signers[j].sk, params, u), oracle)

\* the record of a call of Signature::verify (2016) and of what it returned
VerifyCall16(j, tamper, sig, msgs) ==
    [op |-> "verify", scheme |-> 16, signer |-> j, how |-> sigs[j].how,
     tamper |-> tamper,
     sig |-> sig, msgs |-> msgs,
     ret |-> Sig16_verify(sig, msgs, signers[j].vk, params)]

\* the signature of signer j is verified on the signed messages under j's verkey
VerifyOwn16(j) ==
    /\ j \in DOMAIN sigs
    /\ sigs[j].scheme = 16
    /\ call' = VerifyCall16(j, "none", sigs[j].sig, messages)
    /\ UNCHANGED <<params, signers, messages, oracle, sigs>>

\* ... on a message vector of the same length that is not the signed one
VerifyTamperedMessages16(j) ==
    /\ j \in DOMAIN sigs
    /\ sigs[j].scheme = 16
    /\ \E m \in Vec(FieldElement, Len(messages)) :
         /\ m # messages
         /\ call' = VerifyCall16(j, "messages", sigs[j].sig, m)
    /\ UNCHANGED <<params, signers, messages, oracle, sigs>>

\* ... with sigma_1 replaced by another element of the signature group
VerifyTamperedSigma1_16(j) ==
    /\ j \in DOMAIN sigs
    /\ sigs[j].scheme = 16
    /\ \E s \in SignatureGroup :
         /\ s # sigs[j].sig.sigma_1
         /\ call' = VerifyCall16(j, "sigma_1", [sigs[j].sig EXCEPT !.sigma_1 = s],
                                 messages)
    /\ UNCHANGED <<params, signers, messages, oracle, sigs>>

\* ... with sigma_2 replaced by another element of the signature group
VerifyTamperedSigma2_16(j) ==
    /\ j \in DOMAIN sigs
    /\ sigs[j].scheme = 16
    /\ \E s \in SignatureGroup :
         /\ s # sigs[j].sig.sigma_2
         /\ call' = VerifyCall16(j, "sigma_2", [sigs[j].sig EXCEPT !.sigma_2 = s],
                                 messages)
    /\ UNCHANGED <<params, signers, messages, oracle, sigs>>

Next16 ==
    \/ \E j \in 1 .. MaxSigners : New16(j)
    \/ \E j \in 1 .. MaxSigners : VerifyOwn16(j)

Spec16 == Init16 /\ [][Next16]_vars

NextTamper16 ==
    \/ \E j \in 1 .. MaxSigners : New16(j)
    \/ \E j \in 1 .. MaxSigners : VerifyTamperedMessages16(j)
    \/ \E j \in 1 .. MaxSigners : VerifyTamperedSigma1_16(j)
    \/ \E j \in 1 .. MaxSigners : VerifyTamperedSigma2_16(j)

SpecTamper16 == Init16 /\ [][NextTamper16]_vars

----------------------------------------------------------------------------
(* One signer of the 2018 scheme *)

Init18 ==
    /\ \E label \in Labels : params = Params_new(label)
    /\ \E n \in 1 .. MaxLen :
         \E x \in RandomFieldElement, y \in Vec(RandomFieldElement, n + 1) :
           signers = <<keygen_2018(x, y, params)>>
    /\ \E n \in 1 .. MaxLen : messages \in Vec(FieldElement, n)
    /\ Len(messages) + 1 = Len(signers[1].sk.y)
    /\ oracle = NoOracle
    /\ sigs = <<>>
    /\ call = NoCall

New18(j) ==
    /\ j \in 1 .. Len(signers)
    /\ \E m_prime \in RandomFieldElement, sigma_1 \in RandomSignatureGroup :
         Signed(j, 18, "new",
                Sig18_new(messages, signers[j].sk, m_prime, sigma_1), oracle)

NewWithDeterministicM18(j) ==
    /\ j \in 1 .. Len(signers)
    /\ \E f \in HashedFieldElement, sigma_1 \in RandomSignatureGroup :
         LET o == hash_query_fe(oracle, msg_bytes(messages, Len(messages)), f)
         IN  Signed(j, 18, "new_with_deterministic_m",
                    Sig18_new_with_deterministic_m(o, messages, signers[j].sk, sigma_1),
                    o)

NewDeterministic18(j) ==
    /\ j \in 1 .. Len(signers)
    /\ \E f \in HashedFieldElement, h \in HashedSignatureGroup :
         LET b == msg_bytes(messages, Len(messages))
             o == hash_query_grp(hash_query_fe(oracle, b, f), b, h)
         IN  Signed(j, 18, "new_deterministic",
                    Sig18_new_deterministic(o, messages, signers[j].sk), o)

NewDeterministic16(j) ==
    /\ j \in 1 .. Len(signers)
    /\ \E h \in HashedSignatureGroup :
         LET o == hash_query_grp(oracle, msg_bytes(messages, Len(messages)), h)
         IN  Signed(j, 16, "new_deterministic",
                    Sig16_new_deterministic(o, messages, signers[j].sk), o)

VerifyOwn18(j) ==
    /\ j \in DOMAIN sigs
    /\ sigs[j].scheme = 18
    /\ call' = [op |-> "verify", scheme |-> 18, signer |-> j, how |-> sigs[j].how,
                tamper |-> "none", sig |-> sigs[j].sig, msgs |-> messages,
                ret |-> Sig18_verify(sigs[j].sig, messages, signers[j].vk, params)]
    /\ UNCHANGED <<params, signers, messages, oracle, sigs>>

Next18 ==
    \/ \E j \in 1 .. MaxSigners : New18(j)
    \/ \E j \in 1 .. MaxSigners : NewWithDeterministicM18(j)
    \/ \E j \in 1 .. MaxSigners : NewDeterministic18(j)
    \/ \E j \in 1 .. MaxSigners : VerifyOwn18(j)

Spec18 == Init18 /\ [][Next18]_vars

----------------------------------------------------------------------------
(* Verification of arbitrary signatures, verkeys and message vectors *)

Signature16 == [sigma_1 : SignatureGroup, sigma_2 : SignatureGroup]

Signature18 == [m_prime : FieldElement, sig : Signature16]

Verkey == [X_tilde : VerkeyGroup, Y_tilde : VecUpTo(VerkeyGroup, 0, MaxLen)]

\* any signature, any verkey, any message vector: whoever holds them
InitVerify ==
    /\ \E label \in Labels : params = Params_new(label)
    /\ \E vk \in Verkey : signers = <<[vk |-> vk]>>
    /\ messages \in VecUpTo(FieldElement, 0, MaxLen)
    /\ oracle = NoOracle
    /\ \E sig \in Signature18 : sigs = <<[scheme |-> 18, how |-> "any", sig |-> sig]>>
    /\ call = NoCall

\* Signature::verify (2016) on (sigma_1, sigma_2)
Verify16Any ==
    /\ call' = [op |-> "verify_any", scheme |-> 16, sig |-> sigs[1].sig.sig,
                ret |-> Sig16_verify(sigs[1].sig.sig, messages, signers[1].vk, params)]
    /\ UNCHANGED <<params, signers, messages, oracle, sigs>>

\* Signature::verify (2018) on (m', sigma_1, sigma_2)
Verify18Any ==
    /\ call' = [op |-> "verify_any", scheme |-> 18, sig |-> sigs[1].sig,
                ret |-> Sig18_verify(sigs[1].sig, messages, signers[1].vk, params)]
    /\ UNCHANGED <<params, signers, messages, oracle, sigs>>

\* (sigma_1, sigma_2) |-> (sigma_1^r, sigma_2^r)
randomized(sig, r) ==
    [sigma_1 |-> scalar_mul(sig.sigma_1, r), sigma_2 |-> scalar_mul(sig.sigma_2, r)]

\* the signature is raised to a scalar r # 0 and verified on the same messages
\* under the same verkey
VerifyRandomized16 ==
    /\ \E r \in FieldElement \ {0} :
         call' = [op |-> "verify_randomized", scheme |-> 16, r |-> r,
                  before |-> Sig16_verify(sigs[1].sig.sig, messages, signers[1].vk,
                                          params),
                  sig |-> randomized(sigs[1].sig.sig, r),
                  ret |-> Sig16_verify(randomized(sigs[1].sig.sig, r), messages,
                                       signers[1].vk, params)]
    /\ UNCHANGED <<params, signers, messages, oracle, sigs>>

\* Signature::verify (2018) on (m', sigma_1, sigma_2) and the messages, next to
\* Signature::verify (2016) on (sigma_1, sigma_2) and the messages followed by m'
Verify18AndExtended16 ==
    /\ call' = [op |-> "verify_extended", scheme |-> 18, sig |-> sigs[1].sig,
                ret |-> Sig18_verify(sigs[1].sig, messages, signers[1].vk, params),
                ret16 |-> Sig16_verify(sigs[1].sig.sig,
                                       Append(messages, sigs[1].sig.m_prime),
                                       signers[1].vk, params)]
    /\ UNCHANGED <<params, signers, messages, oracle, sigs>>

NextVerify ==
    \/ Verify16Any
    \/ Verify18Any
    \/ VerifyRandomized16
    \/ Verify18AndExtended16

SpecVerify == InitVerify /\ [][NextVerify]_vars

----------------------------------------------------------------------------
(* Several signers of one message vector, and the aggregation of what they sign *)

\* the verkeys of all signers, in order
VerkeysOf(ss) == [k \in 1 .. Len(ss) |-> ss[k].vk]

\* the signatures the signers hold, in order
SigsOf(sg) == [k \in 1 .. Len(sg) |-> sg[k].sig]

\* one to MaxSigners signers, each with a key pair of its own from keygen (2016)
\* or keygen_2018 for the length of the message vector they all sign; the
\* vectors are one shorter than MaxLen allows
InitMulti ==
    /\ \E label \in Labels : params = Params_new(label)
    /\ messages \in VecUpTo(FieldElement, 1, MaxLen - 1)
    /\ \E k \in 1 .. MaxSigners, L \in {Len(messages), Len(messages) + 1} :
         \E xs \in Vec(RandomFieldElement, k),
            ys \in Vec(Vec(RandomFieldElement, L), k) :
           signers = [j \in 1 .. k |-> keygen(xs[j], ys[j], params)]
    /\ oracle = NoOracle
    /\ sigs = <<>>
    /\ call = NoCall

\* every signer calls Signature::new_deterministic (2016) on the message vector
AllNewDeterministic16 ==
    /\ sigs = <<>>
    /\ \A j \in 1 .. Len(signers) : Len(signers[j].sk.y) = Len(messages)
    /\ \E h \in HashedSignatureGroup :
         LET o == hash_query_grp(oracle, msg_bytes(messages, Len(messages)), h)
             rets == [j \in 1 .. Len(signers) |->
                        Sig16_new_deterministic(o, messages, signers[j].sk)]
         IN  /\ oracle' = o
             /\ call' = [op |-> "new_deterministic", scheme |-> 16, rets |-> rets]
             /\ sigs' = [j \in {i \in 1 .. Len(signers) : IsOk(rets[i])} |->
                           [scheme |-> 16, how |-> "new_deterministic",
                            sig |-> rets[j].val]]
    /\ UNCHANGED <<params, signers, messages>>

\* every signer calls Signature::new_deterministic (2018) on the message vector
AllNewDeterministic18 ==
    /\ sigs = <<>>
    /\ \A j \in 1 .. Len(signers) : Len(signers[j].sk.y) = Len(messages) + 1
    /\ \E f \in HashedFieldElement, h \in HashedSignatureGroup :
         LET b == msg_bytes(messages, Len(messages))
             o == hash_query_grp(hash_query_fe(oracle, b, f), b, h)
             rets == [j \in 1 .. Len(signers) |->
                        Sig18_new_deterministic(o, messages, signers[j].sk)]
         IN  /\ oracle' = o
             /\ call' = [op |-> "new_deterministic", scheme |-> 18, rets |-> rets]
             /\ sigs' = [j \in {i \in 1 .. Len(signers) : IsOk(rets[i])} |->
                           [scheme |-> 18, how |-> "new_deterministic",
                            sig |-> rets[j].val]]
    /\ UNCHANGED <<params, signers, messages>>

AllSigned(scheme) ==
    /\ DOMAIN sigs = 1 .. Len(signers)
    /\ \A j \in DOMAIN sigs :
         sigs[j].scheme = scheme /\ sigs[j].how = "new_deterministic"

\* the signatures of all signers are aggregated
FromSigs16 ==
    /\ call.op = "new_deterministic"
    /\ AllSigned(16)
    /\ call' = [op |-> "from_sigs", scheme |-> 16,
                ret |-> MultiSignatureFast_from_sigs(SigsOf(sigs))]
    /\ UNCHANGED <<params, signers, messages, oracle, sigs>>

FromSigs18 ==
    /\ call.op = "new_deterministic"
    /\ AllSigned(18)
    /\ call' = [op |-> "from_sigs", scheme |-> 18,
                ret |-> MultiSignatureFast_from_sigs_2018(SigsOf(sigs))]
    /\ UNCHANGED <<params, signers, messages, oracle, sigs>>

\* the aggregate just made is verified against the verkeys of all signers
MultiVerify16 ==
    /\ call.op = "from_sigs" /\ call.scheme = 16 /\ IsOk(call.ret)
    /\ call' = [op |-> "multi_verify", scheme |-> 16, sig |-> call.ret.val,
                ret |-> MultiSignatureFast_verify(call.ret.val, messages,
                                                  VerkeysOf(signers), params)]
    /\ UNCHANGED <<params, signers, messages, oracle, sigs>>

MultiVerify18 ==
    /\ call.op = "from_sigs" /\ call.scheme = 18 /\ IsOk(call.ret)
    /\ call' = [op |-> "multi_verify", scheme |-> 18, sig |-> call.ret.val,
                ret |-> MultiSignatureFast_verify_2018(call.ret.val, messages,
                                                       VerkeysOf(signers), params)]
    /\ UNCHANGED <<params, signers, messages, oracle, sigs>>

NextMulti ==
    \/ AllNewDeterministic16
    \/ AllNewDeterministic18
    \/ FromSigs16
    \/ FromSigs18
    \/ MultiVerify16
    \/ MultiVerify18

SpecMulti == InitMulti /\ [][NextMulti]_vars

----------------------------------------------------------------------------
(* Aggregation of arbitrary lists of signatures and of verkeys *)

KeyPairs ==
    UNION {{keygen(x, y, p) : x \in RandomFieldElement,
                              y \in Vec(RandomFieldElement, L),
                              p \in {Params_new(l) : l \in Labels}}
             : L \in 0 .. MaxLen}

AnySig == {[scheme |-> 18, how |-> "any", sig |-> sig] : sig \in Signature18}

\* a list of key pairs of any lengths and no signature; or a list of any
\* signatures and no key; or one signature, any message vector and no key
InitAgg ==
    /\ \E label \in Labels : params = Params_new(label)
    /\ oracle = NoOracle
    /\ call = NoCall
    /\ \/ /\ signers \in VecUpTo(KeyPairs, 1, MaxSigners)
          /\ sigs = <<>>
          /\ messages = <<>>
       \/ /\ signers = <<>>
          /\ sigs \in VecUpTo(AnySig, 1, MaxSigners)
          /\ messages = <<>>
       \/ /\ signers = <<>>
          /\ sigs \in VecUpTo(AnySig, 1, 1)
          /\ messages \in VecUpTo(FieldElement, 0, MaxLen)

FromVerkeysAny ==
    /\ call' = [op |-> "from_verkeys",
                ret |-> AggregatedVerkeyFast_from_verkeys(VerkeysOf(signers))]
    /\ UNCHANGED <<params, signers, messages, oracle, sigs>>

FromSigs16Any ==
    /\ call' = [op |-> "from_sigs", scheme |-> 16,
                ret |-> MultiSignatureFast_from_sigs(
                          [k \in 1 .. Len(sigs) |-> sigs[k].sig.sig])]
    /\ UNCHANGED <<params, signers, messages, oracle, sigs>>

FromSigs18Any ==
    /\ call' = [op |-> "from_sigs", scheme |-> 18,
                ret |-> MultiSignatureFast_from_sigs_2018(SigsOf(sigs))]
    /\ UNCHANGED <<params, signers, messages, oracle, sigs>>

\* MultiSignatureFast::verify of some signature against the list of verkeys
MultiVerify16Any ==
    /\ sigs # <<>>
    /\ call' = [op |-> "multi_verify", scheme |-> 16, sig |-> sigs[1].sig.sig,
                ret |-> MultiSignatureFast_verify(sigs[1].sig.sig, messages,
                                                  VerkeysOf(signers), params)]
    /\ UNCHANGED <<params, signers, messages, oracle, sigs>>

MultiVerify18Any ==
    /\ sigs # <<>>
    /\ call' = [op |-> "multi_verify", scheme |-> 18, sig |-> sigs[1].sig,
                ret |-> MultiSignatureFast_verify_2018(sigs[1].sig, messages,
                                                       VerkeysOf(signers), params)]
    /\ UNCHANGED <<params, signers, messages, oracle, sigs>>

NextAgg ==
    \/ FromVerkeysAny
    \/ FromSigs16Any
    \/ FromSigs18Any
    \/ MultiVerify16Any
    \/ MultiVerify18Any

SpecAgg == InitAgg /\ [][NextAgg]_vars

----------------------------------------------------------------------------
(* A signer of the 2018 scheme, a prover holding the signature, a verifier *)

InitPoK ==
    /\ \E label \in Labels : params = Params_new(label)
    /\ \E n \in 1 .. MaxLen - 1 :
         \E x \in RandomFieldElement, y \in Vec(RandomFieldElement, n + 1) :
           signers = <<keygen_2018(x, y, params)>>
    /\ \E n \in 1 .. MaxLen - 1 : messages \in Vec(FieldElement, n)
    /\ Len(messages) + 1 = Len(signers[1].sk.y)
    /\ oracle = NoOracle
    /\ sigs = <<>>
    /\ call = NoCall

\* the signer signs the message vector, once
SignForPoK ==
    /\ sigs = <<>>
    /\ New18(1)

\* the message vectors a prover may hand to init: the signed one, and one
\* that is too short or too long for the verkey
PoKMessageVectors ==
    {messages, SubSeq(messages, 1, Len(messages) - 1), Append(messages, 0)}

\* init samples nothing when one of its checks fails
InitSamples(msgs, blindings, revealed) ==
    /\ IsOk(Sig18_check_verkey_and_messages_compat(msgs, signers[1].vk))
    /\ IsOk(PoK16_validate_revealed_indices(msgs, revealed))
    /\ IsOk(PoK16_get_blindings(blindings, msgs, revealed))

\* the scalars init samples for blindings: one for t, one for m', and one for
\* every hidden message when the caller supplies none (when a check fails
\* none is sampled and the vector is immaterial)
FreshBlindings(msgs, blindings, revealed) ==
    IF ~InitSamples(msgs, blindings, revealed) THEN Vec({1}, Len(msgs) + 2)
    ELSE IF blindings.some THEN Vec(RandomFieldElement, 2)
    ELSE Vec(RandomFieldElement, Len(msgs) - Cardinality(revealed) + 2)

\* the scalars init samples for r and for t
SampledScalars(msgs, blindings, revealed) ==
    IF InitSamples(msgs, blindings, revealed) THEN RandomFieldElement ELSE {1}

\* PoKOfSignature::init (2018) on the signature just made, with any set of
\* revealed indices up to the index of m' and with or without blindings
PoKInit ==
    /\ call.op = "new"
    /\ IsOk(call.ret)
    /\ \E msgs \in PoKMessageVectors,
          revealed \in SUBSET (0 .. Len(messages)),
          blindings \in {None} \cup {Some(b) : b \in VecUpTo(FieldElement, 0, Len(messages))} :
         \E r \in SampledScalars(msgs, blindings, revealed),
            t \in SampledScalars(msgs, blindings, revealed),
            fresh \in FreshBlindings(msgs, blindings, revealed) :
           LET ret == PoK18_init(sigs[1].sig, signers[1].vk, params, msgs, blindings,
                                 revealed, r, t, fresh)
           IN  call' = [op |-> "pok_init", msgs |-> msgs, revealed |-> revealed,
                        blindings |-> blindings,
                        fresh |-> fresh,
                        ret |-> ret]
    /\ UNCHANGED <<params, signers, messages, oracle, sigs>>

\* the prover hashes pok.to_bytes() to the challenge and calls gen_proof,
\* which consumes the prover state
GenProof ==
    /\ call.op = "pok_init"
    /\ IsOk(call.ret)
    /\ \E f \in HashedFieldElement :
         LET bytes == PoK18_to_bytes(call.ret.val)
             o == hash_query_fe(oracle, bytes, f)
             chal_prover == FieldElement_from_msg_hash(o, bytes)
         IN  /\ call' = [op |-> "gen_proof", revealed |-> call.revealed,
                         blindings |-> call.blindings,
                         chal_bytes |-> bytes, challenge |-> chal_prover,
                         ret |-> PoK18_gen_proof(call.ret.val, chal_prover)]
             /\ oracle' = o
    /\ UNCHANGED <<params, signers, messages, sigs>>

\* the values the hash to the scalar field may take on some bytes: the one
\* it took before, or any
HashValues(bytes) ==
    IF bytes \in DOMAIN oracle.fe THEN {oracle.fe[bytes]} ELSE HashedFieldElement

\* the map the verifier is given: the signed message at every revealed index
RevealedMsgs(revealed) == [i \in revealed |-> messages[i + 1]]

\* the verifier recomputes the challenge from the proof and verifies the
\* proof with the revealed messages
PoKVerify ==
    /\ call.op = "gen_proof"
    /\ IsOk(call.ret)
    /\ \E f \in HashValues(PoKProof_get_bytes_for_challenge(call.ret.val, call.revealed,
                                                           signers[1].vk, params)) :
         LET proof == call.ret.val
             bytes == PoKProof_get_bytes_for_challenge(proof, call.revealed,
                                                       signers[1].vk, params)
             o == hash_query_fe(oracle, bytes, f)
             chal_verifier == FieldElement_from_msg_hash(o, bytes)
         IN  /\ call' = [op |-> "pok_verify", proof |-> proof,
                         revealed |-> call.revealed, blindings |-> call.blindings,
                         prover_bytes |-> call.chal_bytes, chal_bytes |-> bytes,
                         challenge |-> chal_verifier,
                         ret |-> PoKProof_verify(proof, signers[1].vk, params,
                                                 RevealedMsgs(call.revealed),
                                                 chal_verifier)]
             /\ oracle' = o
    /\ UNCHANGED <<params, signers, messages, sigs>>

\* the verifier verifies the same proof under the same challenge with the
\* value at one revealed index replaced by another scalar
PoKVerifyWrongMessage ==
    /\ call.op = "pok_verify"
    /\ \E i \in call.revealed :
         \E m \in FieldElement \ {messages[i + 1]} :
           call' = [op |-> "pok_verify_wrong", proof |-> call.proof,
                    revealed |-> call.revealed, challenge |-> call.challenge,
                    index |-> i, value |-> m, before |-> call.ret,
                    ret |-> PoKProof_verify(call.proof, signers[1].vk, params,
                                            [RevealedMsgs(call.revealed) EXCEPT ![i] = m],
                                            call.challenge)]
    /\ UNCHANGED <<params, signers, messages, oracle, sigs>>

NextPoK ==
    \/ SignForPoK
    \/ PoKInit
    \/ GenProof
    \/ PoKVerify
    \/ PoKVerifyWrongMessage

SpecPoK == InitPoK /\ [][NextPoK]_vars

----------------------------------------------------------------------------
(* One call of an operation on a key and a message vector of any lengths *)

\* a signing key with any number of y, the empty one included, and a message
\* vector of any length
InitLengths ==
    /\ \E label \in Labels : params = Params_new(label)
    /\ \E L \in 0 .. MaxLen :
         \E x \in RandomFieldElement, y \in Vec(RandomFieldElement, L) :
           signers = <<keygen(x, y, params)>>
    /\ messages \in VecUpTo(FieldElement, 0, MaxLen)
    /\ oracle = NoOracle
    /\ sigs = <<>>
    /\ call = NoCall

\* one of the five constructors is called
Construct16 ==
    /\ call = NoCall
    /\ New16(1) \/ NewDeterministic16(1)

Construct18 ==
    /\ call = NoCall
    /\ New18(1) \/ NewWithDeterministicM18(1) \/ NewDeterministic18(1)

\* the offsets a caller passes: small ones, and the largest usize values
Offsets == (0 .. MaxLen) \cup ((UsizeModulus - MaxLen) .. (UsizeModulus - 1))

\* Signature::sign_with_given_sigma_1 (2016) is called with some offset, in a
\* build that checks arithmetic overflow or in one that does not
SignWithGivenSigma1 ==
    /\ call = NoCall
    /\ \E offset \in Offsets, h \in RandomSignatureGroup, overflow_checks \in BOOLEAN :
         call' = [op |-> "sign_with_given_sigma_1", scheme |-> 16, offset |-> offset,
                  overflow_checks |-> overflow_checks,
                  ret |-> IF overflow_checks
                          THEN Sig16_sign_with_given_sigma_1_overflow_checked(
                                 messages, signers[1].sk, offset, h)
                          ELSE Sig16_sign_with_given_sigma_1(
                                 messages, signers[1].sk, offset, h)]
    /\ UNCHANGED <<params, signers, messages, oracle, sigs>>

CheckVerkeyAndMessagesCompat ==
    /\ call = NoCall
    /\ \E scheme \in {16, 18} :
         call' = [op |-> "check_verkey_and_messages_compat", scheme |-> scheme,
                  ret |-> IF scheme = 16
                          THEN Sig16_check_verkey_and_messages_compat(messages,
                                                                      signers[1].vk)
                          ELSE Sig18_check_verkey_and_messages_compat(messages,
                                                                      signers[1].vk)]
    /\ UNCHANGED <<params, signers, messages, oracle, sigs>>

CheckSigkeyAndMessagesCompat ==
    /\ call = NoCall
    /\ \E scheme \in {16, 18} :
         call' = [op |-> "check_sigkey_and_messages_compat", scheme |-> scheme,
                  ret |-> IF scheme = 16
                          THEN Sig16_check_sigkey_and_messages_compat(messages,
                                                                      signers[1].sk)
                          ELSE Sig18_check_sigkey_and_messages_compat(messages,
                                                                      signers[1].sk)]
    /\ UNCHANGED <<params, signers, messages, oracle, sigs>>

\* the signed vector with its last message dropped, and with one more message
OtherLengths ==
    {SubSeq(messages, 1, Len(messages) - 1), Append(messages, 0)} \ {messages}

\* the signature just made is verified on the signed messages or on a vector
\* of another length
VerifyLengths ==
    /\ 1 \in DOMAIN sigs
    /\ call.op \in {"new", "new_with_deterministic_m", "new_deterministic"}
    /\ \E msgs \in {messages} \cup OtherLengths :
         call' = [op |-> "verify", scheme |-> sigs[1].scheme, msgs |-> msgs,
                  ret |-> IF sigs[1].scheme = 16
                          THEN Sig16_verify(sigs[1].sig, msgs, signers[1].vk, params)
                          ELSE Sig18_verify(sigs[1].sig, msgs, signers[1].vk, params)]
    /\ UNCHANGED <<params, signers, messages, oracle, sigs>>

NextLengths ==
    \/ Construct16
    \/ Construct18
    \/ SignWithGivenSigma1
    \/ CheckVerkeyAndMessagesCompat
    \/ CheckSigkeyAndMessagesCompat
    \/ VerifyLengths

SpecLengths == InitLengths /\ [][NextLengths]_vars

----------------------------------------------------------------------------
(* Vocabulary of the properties *)

OkTrue(r) == r.tag = "Ok" /\ r.val = TRUE

OkFalse(r) == r.tag = "Ok" /\ r.val = FALSE

RECURSIVE InnerProduct(_, _, _)
\* sum of a[i] * b[i] for i in 1..n, in the scalar field
InnerProduct(a, b, n) ==
    IF n = 0 THEN 0 ELSE (InnerProduct(a, b, n - 1) + a[n] * b[n]) % Q

\* x + sum of y[i] * m[i]: the exponent that takes sigma_1 to sigma_2
SigningExponent(sk, m) == (sk.x + InnerProduct(sk.y, m, Len(m))) % Q

\* the positions at which two vectors of the same length differ
DiffPositions(a, b) == {i \in 1 .. Len(a) : a[i] # b[i]}

----------------------------------------------------------------------------
(* Properties of the 2016 scheme *)

\* C1 (as stated): a signature made by Signature::new on M under sk always
\* verifies on M under the matching vk, whatever u, x, y and M are.
C1_Completeness16 ==
    (call.op = "verify" /\ call.how = "new" /\ call.tamper = "none")
        => OkTrue(call.ret)

\* C1 (amended): a signature made by Signature::new on M under sk verifies on
\* M under the matching vk exactly when the exponent x + sum y[i]*M[i] is not
\* zero in the scalar field; when it is zero, sigma_2 is the identity and
\* verify answers Ok(false).
C1_Completeness16_NonZeroExponent ==
    (call.op = "verify" /\ call.how = "new" /\ call.tamper = "none")
        => /\ SigningExponent(signers[call.signer].sk, messages) # 0
                => OkTrue(call.ret)
           /\ SigningExponent(signers[call.signer].sk, messages) = 0
                => OkFalse(call.ret)

C1_Witness ==
    /\ call.op = "verify" /\ call.how = "new" /\ call.tamper = "none"
    /\ Len(messages) = MaxLen
    /\ \A i \in 1 .. Len(messages) : messages[i] # 0
    /\ SigningExponent(signers[call.signer].sk, messages) # 0
    /\ OkTrue(call.ret)


\* C5 (as stated): a signature made by Signature::new, verified on any other
\* message vector of the same length, or with sigma_1 or sigma_2 replaced by
\* any other group element, gets Ok(false).
C5_TamperResistance ==
    (call.op = "verify" /\ call.how = "new" /\ call.tamper # "none")
        => OkFalse(call.ret)

\* C5 (amended): with sigma_1 or sigma_2 replaced, verify answers Ok(false).
\* On another message vector M' of the same length it answers Ok(false) when
\* sum y[i]*(M'[i] - M[i]) is not zero, which is the case whenever M' differs
\* from M in exactly one position; when that sum is zero (M' differs in two
\* or more positions) it answers what it answers on M itself. Never an error.
C5_TamperResistance_UpToKernel ==
    (call.op = "verify" /\ call.how = "new" /\ call.tamper # "none")
        => LET sk == signers[call.signer].sk
               delta == [i \in 1 .. Len(messages) |->
                           (call.msgs[i] + Q - messages[i]) % Q]
               shift == InnerProduct(sk.y, delta, Len(delta))
           IN  /\ call.ret.tag = "Ok"
               /\ call.tamper \in {"sigma_1", "sigma_2"} => OkFalse(call.ret)
               /\ (call.tamper = "messages" /\ shift # 0) => OkFalse(call.ret)
               /\ (call.tamper = "messages"
                     /\ Cardinality(DiffPositions(call.msgs, messages)) = 1)
                    => OkFalse(call.ret)
               /\ (call.tamper = "messages" /\ shift = 0)
                    => (OkTrue(call.ret) <=> SigningExponent(sk, messages) # 0)

C5_Witness ==
    /\ call.op = "verify" /\ call.how = "new" /\ call.tamper = "messages"
    /\ Len(messages) = MaxLen
    /\ Cardinality(DiffPositions(call.msgs, messages)) = 1
    /\ SigningExponent(signers[call.signer].sk, messages) # 0
    /\ OkFalse(call.ret)

----------------------------------------------------------------------------
(* Properties of the 2018 scheme *)

\* x + sum y[i]*m[i] + y[n+1]*m': the exponent of the 2018 scheme
SigningExponent18(sk, m, m_prime) ==
    (sk.x + InnerProduct(sk.y, Append(m, m_prime), Len(m) + 1)) % Q

Constructors18 == {"new", "new_with_deterministic_m", "new_deterministic"}

\* what C2 says of the value a constructor returns
C2_SignatureEquation ==
    (call.op \in Constructors18 /\ call.scheme = 18)
        => /\ IsOk(call.ret)
           /\ call.ret.val.sig.sigma_2 =
                 (call.ret.val.sig.sigma_1
                    * SigningExponent18(signers[call.signer].sk, messages,
                                        call.ret.val.m_prime)) % Q

\* C2 (as stated): each of the three constructors of the 2018 scheme returns
\* (m', sigma_1, sigma_2) with sigma_2 = sigma_1^(x + sum y[i]*M[i] + y[n]*m'),
\* and verify of it on M under the matching vk always returns Ok(true).
C2_Completeness18 ==
    /\ C2_SignatureEquation
    /\ (call.op = "verify" /\ call.scheme = 18 /\ call.tamper = "none")
         => OkTrue(call.ret)

\* C2 (amended): each of the three constructors returns (m', sigma_1, sigma_2)
\* with sigma_2 = sigma_1^(x + sum y[i]*M[i] + y[n]*m'), and verify of it on M
\* under the matching vk returns Ok(true) exactly when that exponent is not
\* zero in the scalar field; when it is zero, sigma_2 is the identity and
\* verify answers Ok(false).
C2_Completeness18_NonZeroExponent ==
    /\ C2_SignatureEquation
    /\ (call.op = "verify" /\ call.scheme = 18 /\ call.tamper = "none")
         => LET e == SigningExponent18(signers[call.signer].sk, messages,
                                       call.sig.m_prime)
            IN  /\ e # 0 => OkTrue(call.ret)
                /\ e = 0 => OkFalse(call.ret)

C2_Witness ==
    /\ call.op = "verify" /\ call.scheme = 18 /\ call.tamper = "none"
    /\ call.how = "new_deterministic"
    /\ Len(messages) = MaxLen
    /\ call.sig.m_prime # 0
    /\ \A i \in 1 .. Len(messages) : messages[i] # 0
    /\ OkTrue(call.ret)

----------------------------------------------------------------------------
(* Properties of verification *)

\* e(sigma_1, X_tilde * prod Y_tilde[i]^m[i]) = e(sigma_2, g_tilde)
PairingEquation(sig, m, vk, p) ==
    (sig.sigma_1 * (vk.X_tilde + InnerProduct(vk.Y_tilde, m, Len(m)))) % Q
        = (sig.sigma_2 * p.g_tilde) % Q

\* C3: with |M| = |Y_tilde|, verify returns Ok(true) if sigma_1 and sigma_2
\* are not the identity and the pairing equation holds, and Ok(false) if not.
C3_VerificationCriterion ==
    (call.op = "verify_any" /\ call.scheme = 16
        /\ Len(messages) = Len(signers[1].vk.Y_tilde))
        => LET good == /\ call.sig.sigma_1 # 0
                       /\ call.sig.sigma_2 # 0
                       /\ PairingEquation(call.sig, messages, signers[1].vk, params)
           IN  /\ good => OkTrue(call.ret)
               /\ ~good => OkFalse(call.ret)

C3_Witness ==
    /\ call.op = "verify_any" /\ call.scheme = 16
    /\ Len(messages) = MaxLen
    /\ Len(signers[1].vk.Y_tilde) = MaxLen
    /\ \A i \in 1 .. MaxLen : messages[i] # 0 /\ signers[1].vk.Y_tilde[i] # 0
    /\ signers[1].vk.X_tilde # 0
    /\ OkTrue(call.ret)

\* C4: verify with |M| # |Y_tilde| (2016) or |M| + 1 # |Y_tilde| (2018)
\* returns the error UnsupportedNoOfMessages, whatever the signature is.
C4_LengthMismatchIsError ==
    (call.op = "verify_any"
        /\ Len(messages) + (IF call.scheme = 18 THEN 1 ELSE 0)
              # Len(signers[1].vk.Y_tilde))
        => IsErr(call.ret, "UnsupportedNoOfMessages")

C4_Witness ==
    /\ call.op = "verify_any" /\ call.scheme = 16
    /\ Len(messages) # Len(signers[1].vk.Y_tilde)
    /\ call.sig.sigma_1 = 0
    /\ IsErr(call.ret, "UnsupportedNoOfMessages")

\* C10: for r # 0, (sigma_1^r, sigma_2^r) verifies on M under vk if and only
\* if (sigma_1, sigma_2) does.
C10_RandomizationInvariance ==
    (call.op = "verify_randomized"
        /\ Len(messages) = Len(signers[1].vk.Y_tilde))
        => (OkTrue(call.ret) <=> OkTrue(call.before))

C10_Witness ==
    /\ call.op = "verify_randomized"
    /\ call.r # 1
    /\ Len(messages) = MaxLen
    /\ Len(signers[1].vk.Y_tilde) = MaxLen
    /\ call.sig # sigs[1].sig.sig
    /\ OkTrue(call.before)
    /\ OkTrue(call.ret)


----------------------------------------------------------------------------
(* Properties of the multi-signature *)

RECURSIVE AggregateExponent(_, _, _)
\* the sum over the first n signers of x + sum y[i]*m[i]
AggregateExponent(ss, m, n) ==
    IF n = 0 THEN 0
    ELSE (AggregateExponent(ss, m, n - 1)
            + ss[n].sk.x + InnerProduct(ss[n].sk.y, m, Len(m))) % Q

\* the message vector the aggregate is verified on: M, or M with m' appended
SignedVector(c) == IF c.scheme = 18 THEN Append(messages, c.sig.m_prime) ELSE messages

\* C6 (as stated): when every signer ran new_deterministic on the same M,
\* from_sigs (from_sigs_2018) succeeds and verify (verify_2018) of the
\* aggregate against the list of all verkeys returns Ok(true).
C6_AggregationSoundness ==
    /\ call.op = "from_sigs" => IsOk(call.ret)
    /\ call.op = "multi_verify" => OkTrue(call.ret)

\* C6 (amended): when every signer ran new_deterministic on the same M,
\* from_sigs (from_sigs_2018) succeeds, and verify (verify_2018) of the
\* aggregate against the list of all verkeys returns Ok(true) exactly when
\* the sum over the signers of their exponents x_j + sum y_j[i]*M[i]
\* (+ y_j[n]*m') is not zero in the scalar field; when it is zero the
\* aggregate sigma_2 is the identity and the answer is Ok(false).
C6_AggregationSoundness_NonZeroExponent ==
    /\ call.op = "from_sigs" => IsOk(call.ret)
    /\ call.op = "multi_verify"
         => LET e == AggregateExponent(signers, SignedVector(call), Len(signers))
            IN  /\ e # 0 => OkTrue(call.ret)
                /\ e = 0 => OkFalse(call.ret)

C6_Witness ==
    /\ call.op = "multi_verify"
    /\ call.scheme = 18
    /\ Len(signers) = MaxSigners
    /\ signers[1].sk # signers[2].sk
    /\ OkTrue(call.ret)

\* C7: from_sigs on a non-empty list with two different sigma_1, from_sigs_2018
\* on a non-empty list with two different sigma_1 or two different m', and
\* from_verkeys on a non-empty list with two different |Y_tilde| return the
\* error IncompatibleSigsForAggregation (IncompatibleVerkeysForAggregation).
C7_AggregationRejection ==
    /\ (call.op = "from_sigs" /\ call.scheme = 16
          /\ \E a, b \in DOMAIN sigs : sigs[a].sig.sig.sigma_1 # sigs[b].sig.sig.sigma_1)
         => IsErr(call.ret, "IncompatibleSigsForAggregation")
    /\ (call.op = "from_sigs" /\ call.scheme = 18
          /\ \E a, b \in DOMAIN sigs :
                \/ sigs[a].sig.sig.sigma_1 # sigs[b].sig.sig.sigma_1
                \/ sigs[a].sig.m_prime # sigs[b].sig.m_prime)
         => IsErr(call.ret, "IncompatibleSigsForAggregation")
    /\ (call.op = "from_verkeys"
          /\ \E a, b \in DOMAIN signers :
                Len(signers[a].vk.Y_tilde) # Len(signers[b].vk.Y_tilde))
         => IsErr(call.ret, "IncompatibleVerkeysForAggregation")

C7_Witness ==
    /\ call.op = "from_sigs" /\ call.scheme = 18
    /\ Len(sigs) = MaxSigners
    /\ sigs[1].sig.m_prime = sigs[2].sig.m_prime
    /\ sigs[1].sig.sig.sigma_1 # sigs[MaxSigners].sig.sig.sigma_1
    /\ IsErr(call.ret, "IncompatibleSigsForAggregation")

\* C8: from_verkeys, from_sigs and from_sigs_2018 on an empty list, and verify
\* and verify_2018 with an empty list of verkeys, return GeneralError.
C8_EmptyAggregationInput ==
    /\ (call.op = "from_sigs" /\ sigs = <<>>) => IsErr(call.ret, "GeneralError")
    /\ (call.op = "from_verkeys" /\ signers = <<>>) => IsErr(call.ret, "GeneralError")
    /\ (call.op = "multi_verify" /\ signers = <<>>) => IsErr(call.ret, "GeneralError")

C8_Witness ==
    /\ call.op = "multi_verify" /\ call.scheme = 16
    /\ signers = <<>>
    /\ Len(messages) = MaxLen
    /\ call.sig.sigma_1 # 0
    /\ IsErr(call.ret, "GeneralError")

----------------------------------------------------------------------------
(* Properties of the proof of knowledge of a signature *)

\* the signature the prover holds verifies on the signed messages
HoldsValidSignature ==
    /\ 1 \in DOMAIN sigs
    /\ OkTrue(Sig18_verify(sigs[1].sig, messages, signers[1].vk, params))

\* init was called on the signed messages with revealed indices among those of
\* the messages and with no blindings or one blinding for each hidden message
LegalInit(c) ==
    /\ c.msgs = messages
    /\ c.revealed \subseteq 0 .. (Len(messages) - 1)
    /\ c.blindings.some =>
         Len(c.blindings.val) = Len(messages) - Cardinality(c.revealed)

\* C11: for a signature that verifies on M under vk and a legal set of
\* revealed indices, with no blindings or with one caller blinding for each
\* hidden message, init succeeds, gen_proof under the challenge hashed from
\* pok.to_bytes() succeeds, the bytes of proof.get_bytes_for_challenge are
\* those of pok.to_bytes(), and the proof verifies with the revealed messages
\* under the challenge hashed from them: verify returns Ok(true).
C11_PoKCompleteness ==
    HoldsValidSignature =>
      /\ (call.op = "pok_init" /\ LegalInit(call)) => IsOk(call.ret)
      /\ call.op = "gen_proof" => IsOk(call.ret)
      /\ call.op = "pok_verify" =>
           /\ call.chal_bytes = call.prover_bytes
           /\ OkTrue(call.ret)

\* a proof made with a caller-supplied blinding for a hidden message has
\* been verified, and one made with a revealed message would be the same way
C11_Witness ==
    /\ HoldsValidSignature
    /\ call.op = "pok_verify"
    /\ call.blindings.some
    /\ Len(call.blindings.val) >= 1
    /\ OkTrue(call.ret)

\* C12 as stated: a proof that verifies with the revealed messages under a
\* challenge is rejected, with Ok(false), under the same challenge once the
\* value at one revealed index is replaced by a different scalar.
C12_RevealedMessageSoundness ==
    (call.op = "pok_verify_wrong" /\ OkTrue(call.before)) => OkFalse(call.ret)

\* C12, amended: the same, for a challenge other than zero and a verkey whose
\* Y_tilde at the replaced index is not the identity.
C12_RevealedMessageSoundness_NonZeroChallenge ==
    (/\ call.op = "pok_verify_wrong"
     /\ OkTrue(call.before)
     /\ call.challenge # 0
     /\ ~group_is_identity(signers[1].vk.Y_tilde[call.index + 1]))
      => OkFalse(call.ret)

C12_Witness ==
    /\ call.op = "pok_verify_wrong"
    /\ OkTrue(call.before)
    /\ call.challenge # 0
    /\ ~group_is_identity(signers[1].vk.Y_tilde[call.index + 1])
    /\ OkFalse(call.ret)

\* C13: init (2018) returns an error, and no prover state, whenever the
\* number of messages plus one differs from the length of Y_tilde or some
\* revealed index is not below the number of messages (the index of m'
\* included); whenever it succeeds, m' is the last hidden exponent, on the last
\* base Y_tilde, and its blinding is the last scalar sampled, not one of the
\* caller's.
C13_MPrimeNeverRevealed ==
    call.op = "pok_init" =>
      /\ (\/ Len(call.msgs) + 1 # Len(signers[1].vk.Y_tilde)
          \/ \E i \in call.revealed : i >= Len(call.msgs))
           => (call.ret.tag = "Err" /\ "val" \notin DOMAIN call.ret)
      /\ IsOk(call.ret) =>
           LET pok == call.ret.val
               k == Len(pok.secrets)
               vk == signers[1].vk
           IN  /\ k = Len(pok.pok_vc.bases)
               /\ k = Len(call.msgs) - Cardinality(call.revealed) + 2
               /\ pok.secrets[k] = sigs[1].sig.m_prime
               /\ pok.pok_vc.bases[k] = vk.Y_tilde[Len(vk.Y_tilde)]
               /\ Len(call.fresh) =
                    (IF call.blindings.some THEN 2 ELSE k)
               /\ pok.pok_vc.blindings[k] = call.fresh[Len(call.fresh)]

\* init was asked to reveal the index of m' and returned an error
C13_Witness ==
    /\ call.op = "pok_init"
    /\ call.msgs = messages
    /\ Len(messages) \in call.revealed
    /\ IsErr(call.ret, "GeneralError")

----------------------------------------------------------------------------
(* Properties of the operations on keys and vectors of any lengths *)

\* the message vector and the offset a call was made with
CallMessages == IF "msgs" \in DOMAIN call THEN call.msgs ELSE messages

CallOffset == IF "offset" \in DOMAIN call THEN call.offset ELSE 0

\* the count derived from the messages: the offset plus the number of
\* messages, plus one for m' in the 2018 scheme
GivenCount ==
    usize_add(CallOffset, Len(CallMessages) + (IF call.scheme = 18 THEN 1 ELSE 0))

\* C14: whenever an operation returns UnsupportedNoOfMessages{expected, given},
\* expected is the number the key is valid for (the length of y, which is the
\* length of Y_tilde) and given is the number derived from the messages the
\* caller supplied.
C14_ErrorFields ==
    ("ret" \in DOMAIN call /\ IsErr(call.ret, "UnsupportedNoOfMessages")) =>
      /\ call.ret.expected = Len(signers[1].sk.y)
      /\ call.ret.given = GivenCount

\* C16: Signature::new and Signature::new_deterministic (2016) called with no
\* message and a signing key with no y return an error and no signature.
C16_SigningRequiresMessages ==
    (/\ call.op \in {"new", "new_deterministic"}
     /\ call.scheme = 16
     /\ messages = <<>>
     /\ signers[1].sk.y = <<>>)
      => (call.ret.tag = "Err" /\ sigs = <<>>)

\* C17: no operation aborts: every call returns a value or a typed error.
C17_NoAbort ==
    "ret" \in DOMAIN call => call.ret.tag \in {"Ok", "Err"}

----------------------------------------------------------------------------
(* Properties relating the two schemes *)

\* C15: for every 2018 signature (m', sigma_1, sigma_2), verkey and message
\* vector M, Signature::verify (2018) on M returns what Signature::verify (2016)
\* returns for (sigma_1, sigma_2) on M followed by m': the same Ok(true), the
\* same Ok(false) or the same UnsupportedNoOfMessages error.
C15_Verify18IsVerify16OnExtendedVector ==
    call.op = "verify_extended" => call.ret = call.ret16

\* both verifications accepted; a mismatch of lengths is refused by both the
\* same way in other states
C15_Witness ==
    /\ call.op = "verify_extended"
    /\ OkTrue(call.ret)
    /\ OkTrue(call.ret16)

====
